---- MODULE Spec2Model ----
(***************************************************************************)
(* gtin-validate: validation and correction of GTIN-8, GTIN-12 (UPC-A),    *)
(* GTIN-13 (EAN-13) and GTIN-14 codes.                                     *)
(*                                                                         *)
(* A string (&str / String) is a sequence of Unicode scalar values; its    *)
(* bytes are its UTF-8 encoding, and len() counts bytes as in Rust.        *)
(* A call's outcome is a record [panic, val]: panic = TRUE is an index out *)
(* of range or, in a build with overflow checks (oc = TRUE), an integer    *)
(* overflow; without overflow checks the arithmetic wraps.                 *)
(***************************************************************************)
EXTENDS Integers, Sequences, FiniteSets, TLC

VARIABLES code, op, arg, ret, calls

vars == <<code, op, arg, ret, calls>>

(* ----------------------------- bounds --------------------------------- *)

\* Longest run of the repeated character in a validator input.
MaxFill == 14

\* Length of the long run of digits handed to compute_check_digit.
LongLen == 4856

\* Longest run of the repeated character in an engine (utils) input.
MaxRun == 5

\* Largest target length handed to zero_pad.
MaxSize == 7

\* Most zeros put in front of a digit string.
MaxPad == 3

(* ------------------------ strings and bytes --------------------------- *)

\* A run of n copies of the character c.
Rep(c, n) == [i \in 1..n |-> c]

\* UTF-8 encoding of one scalar value (what as_bytes exposes).
Utf8(c) ==
    IF c < 128 THEN <<c>>
    ELSE IF c < 2048 THEN <<192 + (c \div 64), 128 + (c % 64)>>
    ELSE IF c < 65536
         THEN <<224 + (c \div 4096), 128 + ((c \div 64) % 64), 128 + (c % 64)>>
    ELSE <<240 + (c \div 262144), 128 + ((c \div 4096) % 64),
           128 + ((c \div 64) % 64), 128 + (c % 64)>>

RECURSIVE as_bytes(_)
as_bytes(s) == IF s = <<>> THEN <<>> ELSE Utf8(Head(s)) \o as_bytes(Tail(s))

\* str::len: the length in bytes.
len(s) == Len(as_bytes(s))

\* str::is_ascii: every byte is below 128.
is_ascii(s) == \A i \in 1..Len(as_bytes(s)) : as_bytes(s)[i] < 128

\* char::is_whitespace: the Unicode White_Space property.
is_whitespace(c) ==
    \/ c \in 9..13
    \/ c \in {32, 133, 160, 5760, 8232, 8233, 8239, 8287, 12288}
    \/ c \in 8192..8202

RECURSIVE trim_left(_)
trim_left(s) ==
    IF s # <<>> /\ is_whitespace(Head(s)) THEN trim_left(Tail(s)) ELSE s

RECURSIVE trim_right(_)
trim_right(s) ==
    IF s # <<>> /\ is_whitespace(s[Len(s)])
    THEN trim_right(SubSeq(s, 1, Len(s) - 1))
    ELSE s

\* Variant: only the leading whitespace is removed.
trim_left_only(s) == trim_left(s)

\* str::trim: leading and trailing whitespace removed.
trim(s) == trim_right(trim_left(s))

\* char::is_ascii_digit
is_ascii_digit(c) == c >= 48 /\ c <= 57

(* --------------------- checked machine arithmetic --------------------- *)

\* A call that panicked, and a call that returned v.
Panic == [panic |-> TRUE, val |-> "panic"]
Done(v) == [panic |-> FALSE, val |-> v]

\* The rest of a computation, F, on the value of a step r that did not panic.
Then(r, F(_)) == IF r.panic THEN Panic ELSE F(r.val)

\* a - b on u8.
sub_u8(a, b, oc) ==
    IF a >= b THEN Done(a - b)
    ELSE IF oc THEN Panic ELSE Done((a - b) + 256)

\* a + b on an unsigned integer of the given modulus (2^8 or 2^16).
add_un(a, b, modulus, oc) ==
    IF a + b < modulus THEN Done(a + b)
    ELSE IF oc THEN Panic ELSE Done((a + b) % modulus)

\* a * b on an unsigned integer of the given modulus.
mul_un(a, b, modulus, oc) ==
    IF a * b < modulus THEN Done(a * b)
    ELSE IF oc THEN Panic ELSE Done((a * b) % modulus)

\* bytes[k], k counted from 0.
index(bytes, k) ==
    IF k >= 0 /\ k < Len(bytes) THEN Done(bytes[k + 1]) ELSE Panic

(* --------------------------- Result values ---------------------------- *)

\* Result::Ok(code) and Result::Err(kind)
Ok(c) == [kind |-> "Ok", code |-> c]
Err(k) == [kind |-> k, code |-> <<>>]

(* ------------------------- src/utils/mod.rs --------------------------- *)

\* One iteration of the loop of compute_check_digit: the digits are read in
\* reverse, the last non-check-digit column (i = 2) being odd.
\* Variant: the columns are told apart by the index from the left.
check_digit_step_from_left(bytes, i, even, odd, oc) ==
    Then(index(bytes, Len(bytes) - i), LAMBDA b :
    Then(sub_u8(b, 48, oc), LAMBDA curr :
    IF (Len(bytes) - i) % 2 = 0
    THEN Then(add_un(odd, curr, 65536, oc), LAMBDA sum :
              Done([even |-> even, odd |-> sum]))
    ELSE Then(add_un(even, curr, 65536, oc), LAMBDA sum :
              Done([even |-> sum, odd |-> odd]))))

check_digit_step(bytes, i, even, odd, oc) ==
    Then(index(bytes, Len(bytes) - i), LAMBDA b :
    Then(sub_u8(b, 48, oc), LAMBDA curr :
    IF i % 2 = 0
    THEN Then(add_un(odd, curr, 65536, oc), LAMBDA sum :
              Done([even |-> even, odd |-> sum]))
    ELSE Then(add_un(even, curr, 65536, oc), LAMBDA sum :
              Done([even |-> sum, odd |-> odd]))))

\* The loop of compute_check_digit from index i on.
RECURSIVE check_digit_loop(_, _, _, _, _)
check_digit_loop(bytes, i, even, odd, oc) ==
    IF i >= Len(bytes) + 1 THEN Done([even |-> even, odd |-> odd])
    ELSE Then(check_digit_step(bytes, i, even, odd, oc), LAMBDA acc :
         check_digit_loop(bytes, i + 1, acc.even, acc.odd, oc))

\* The end of compute_check_digit: check = 10 - check unless it is 0.
complement(check, oc) == IF check > 0 THEN sub_u8(10, check, oc) ELSE Done(check)

\* What follows the loop: check = ((3 * odd + even) % 10) as u8, complemented.
\* Variant: the odd columns are weighted 2.
check_digit_end_weight2(acc, oc) ==
    Then(mul_un(2, acc.odd, 65536, oc), LAMBDA double :
    Then(add_un(double, acc.even, 65536, oc), LAMBDA total :
    complement(total % 10, oc)))

\* Variant: the odd columns are not weighted.
check_digit_end_unweighted(acc, oc) ==
    Then(add_un(acc.odd, acc.even, 65536, oc), LAMBDA total :
    complement(total % 10, oc))

check_digit_end(acc, oc) ==
    Then(mul_un(3, acc.odd, 65536, oc), LAMBDA triple :
    Then(add_un(triple, acc.even, 65536, oc), LAMBDA total :
    complement(total % 10, oc)))

\* Variant: the loop starts at i = 1, so the final byte is summed too.
compute_check_digit_with_last(bytes, oc) ==
    Then(check_digit_loop(bytes, 1, 0, 0, oc), LAMBDA acc :
    Then(mul_un(3, acc.odd, 65536, oc), LAMBDA triple :
    Then(add_un(triple, acc.even, 65536, oc), LAMBDA total :
    complement(total % 10, oc))))

\* utils::compute_check_digit(bytes)
compute_check_digit(bytes, oc) ==
    Then(check_digit_loop(bytes, 2, 0, 0, oc), LAMBDA acc :
    check_digit_end(acc, oc))

\* Variant: the zeros are pushed after the string.
zero_pad_right(upc, size) ==
    IF len(upc) >= size THEN upc
    ELSE upc \o Rep(48, size - len(upc))

\* Variant: the length is counted in characters, not bytes.
zero_pad_chars(upc, size) ==
    IF Len(upc) >= size THEN upc
    ELSE Rep(48, size - Len(upc)) \o upc

\* utils::zero_pad(upc, size)
zero_pad(upc, size) ==
    IF len(upc) >= size THEN upc
    ELSE Rep(48, size - len(upc)) \o upc

\* Variant: any() in place of all().
is_ascii_numeric_any(s) == \E i \in 1..Len(s) : is_ascii_digit(s[i])

\* Variant: is_ascii_alphanumeric in place of is_ascii_digit.
is_ascii_numeric_alnum(s) ==
    \A i \in 1..Len(s) :
        is_ascii_digit(s[i]) \/ s[i] \in 65..90 \/ s[i] \in 97..122

\* utils::is_ascii_numeric(s)
is_ascii_numeric(s) == \A i \in 1..Len(s) : is_ascii_digit(s[i])

(* --- the two-argument engine gtin13 calls (utils::is_number and ------- *)
(* --- utils::compute_check_digit(bytes, size)), as the design states it  *)

\* is_number(bytes, size): the first size bytes are ASCII decimal digits.
is_number(bytes, size) ==
    \A i \in 1..size : i <= Len(bytes) /\ bytes[i] >= 48 /\ bytes[i] <= 57

\* Weighted sum of the first size-1 byte values minus the ASCII zero offset,
\* weight 3 on the byte left of the check-digit position, then 1, 3, ...
RECURSIVE weighted_sum(_, _, _)
weighted_sum(bytes, size, k) ==
    IF k >= size \/ k > Len(bytes) THEN 0
    ELSE (IF (size - k) % 2 = 1 THEN 3 ELSE 1) * (bytes[k] - 48)
         + weighted_sum(bytes, size, k + 1)

\* compute_check_digit(bytes, size)
compute_check_digit_size(bytes, size) ==
    (10 - (weighted_sum(bytes, size, 1) % 10)) % 10

(* ------------------------ src/gtin8/mod.rs ---------------------------- *)

\* Variant: the length test is missing.
gtin8_check_no_len(c, oc) ==
    IF ~is_ascii_numeric(c) THEN Done(FALSE)
    ELSE Then(compute_check_digit(as_bytes(c), oc), LAMBDA check :
         Then(index(as_bytes(c), 7), LAMBDA b :
         Then(sub_u8(b, 48, oc), LAMBDA d :
         IF check # d THEN Done(FALSE) ELSE Done(TRUE))))

\* gtin8::check(code)
gtin8_check(c, oc) ==
    IF len(c) # 8 THEN Done(FALSE)
    ELSE IF ~is_ascii_numeric(c) THEN Done(FALSE)
    ELSE
         Then(compute_check_digit(as_bytes(c), oc), LAMBDA check :
         Then(index(as_bytes(c), 7), LAMBDA b :
         Then(sub_u8(b, 48, oc), LAMBDA d :
         IF check # d THEN Done(FALSE) ELSE Done(TRUE))))

\* Variant: >= in place of > in the length test.
gtin8_fix_trimmed_ge(fixed, oc) ==
    IF ~is_ascii(fixed) THEN Done(Err("NonAsciiString"))
    ELSE IF len(fixed) >= 8 THEN Done(Err("TooLong"))
    ELSE Then(gtin8_check(zero_pad(fixed, 8), oc), LAMBDA valid :
         IF ~valid THEN Done(Err("CheckDigitIncorrect"))
         ELSE Done(Ok(zero_pad(fixed, 8))))

\* Variant: an empty trimmed string is rejected.
gtin8_fix_trimmed_nonempty(fixed, oc) ==
    IF ~is_ascii(fixed) THEN Done(Err("NonAsciiString"))
    ELSE IF len(fixed) > 8 THEN Done(Err("TooLong"))
    ELSE IF len(fixed) = 0 THEN Done(Err("CheckDigitIncorrect"))
    ELSE Then(gtin8_check(zero_pad(fixed, 8), oc), LAMBDA valid :
         IF ~valid THEN Done(Err("CheckDigitIncorrect"))
         ELSE Done(Ok(zero_pad(fixed, 8))))

\* gtin8::fix(code), from the trimmed string on
gtin8_fix_trimmed(fixed, oc) ==
    IF ~is_ascii(fixed) THEN Done(Err("NonAsciiString"))
    ELSE IF len(fixed) > 8 THEN Done(Err("TooLong"))
    ELSE Then(gtin8_check(zero_pad(fixed, 8), oc), LAMBDA valid :
         IF ~valid THEN Done(Err("CheckDigitIncorrect"))
         ELSE Done(Ok(zero_pad(fixed, 8))))

\* gtin8::fix(code)
gtin8_fix(c, oc) == gtin8_fix_trimmed(trim(c), oc)

(* ------------------------ src/gtin12/mod.rs ---------------------------- *)

\* gtin12::check(code)
gtin12_check(c, oc) ==
    IF len(c) # 12 THEN Done(FALSE)
    ELSE IF ~is_ascii_numeric(c) THEN Done(FALSE)
    ELSE
         Then(compute_check_digit(as_bytes(c), oc), LAMBDA check :
         Then(add_un(check, 48, 256, oc), LAMBDA d :
         Then(index(as_bytes(c), 11), LAMBDA b :
         Done(d = b))))

\* Variant: the string returned is the one before padding.
gtin12_fix_trimmed_unpadded(fixed, oc) ==
    IF ~is_ascii(fixed) THEN Done(Err("NonAsciiString"))
    ELSE IF len(fixed) > 12 THEN Done(Err("TooLong"))
    ELSE Then(gtin12_check(zero_pad(fixed, 12), oc), LAMBDA valid :
         IF ~valid THEN Done(Err("CheckDigitIncorrect"))
         ELSE Done(Ok(fixed)))

\* gtin12::fix(code), from the trimmed string on
gtin12_fix_trimmed(fixed, oc) ==
    IF ~is_ascii(fixed) THEN Done(Err("NonAsciiString"))
    ELSE IF len(fixed) > 12 THEN Done(Err("TooLong"))
    ELSE Then(gtin12_check(zero_pad(fixed, 12), oc), LAMBDA valid :
         IF ~valid THEN Done(Err("CheckDigitIncorrect"))
         ELSE Done(Ok(zero_pad(fixed, 12))))

\* gtin12::fix(code)
gtin12_fix(c, oc) == gtin12_fix_trimmed(trim(c), oc)

(* ------------------------ src/gtin13/mod.rs --------------------------- *)

\* gtin13::check(code)
gtin13_check(c, oc) ==
    IF ~is_ascii(c) THEN Done(FALSE)
    ELSE IF len(c) # 13 THEN Done(FALSE)
    ELSE IF ~is_number(as_bytes(c), 13) THEN Done(FALSE)
    ELSE Then(index(as_bytes(c), 12), LAMBDA b :
         Then(sub_u8(b, 48, oc), LAMBDA d :
         IF compute_check_digit_size(as_bytes(c), 13) # d THEN Done(FALSE)
         ELSE Done(TRUE)))

\* gtin13::fix(code), from the trimmed string on
gtin13_fix_trimmed(fixed, oc) ==
    IF ~is_ascii(fixed) THEN Done(Err("NonAsciiString"))
    ELSE IF len(fixed) > 13 THEN Done(Err("TooLong"))
    ELSE Then(gtin13_check(zero_pad(fixed, 13), oc), LAMBDA valid :
         IF ~valid THEN Done(Err("CheckDigitIncorrect"))
         ELSE Done(Ok(zero_pad(fixed, 13))))

\* gtin13::fix(code)
gtin13_fix(c, oc) == gtin13_fix_trimmed(trim_right(trim_left(c)), oc)

(* ------------------------ src/gtin14/mod.rs ---------------------------- *)

\* Variant: the check digit is compared with bytes[12].
gtin14_check_index12(c, oc) ==
    IF len(c) # 14 THEN Done(FALSE)
    ELSE IF ~is_ascii_numeric(c) THEN Done(FALSE)
    ELSE Then(compute_check_digit(as_bytes(c), oc), LAMBDA check :
         Then(add_un(check, 48, 256, oc), LAMBDA d :
         Then(index(as_bytes(c), 12), LAMBDA b :
         Done(d = b))))

\* gtin14::check(code)
gtin14_check(c, oc) ==
    IF len(c) # 14 THEN Done(FALSE)
    ELSE IF ~is_ascii_numeric(c) THEN Done(FALSE)
    ELSE
         Then(compute_check_digit(as_bytes(c), oc), LAMBDA check :
         Then(add_un(check, 48, 256, oc), LAMBDA d :
         Then(index(as_bytes(c), 13), LAMBDA b :
         Done(d = b))))

\* Variant: the length test is missing.
gtin14_fix_trimmed_no_len(fixed, oc) ==
    IF ~is_ascii(fixed) THEN Done(Err("NonAsciiString"))
    ELSE Then(gtin14_check(zero_pad(fixed, 14), oc), LAMBDA valid :
         IF ~valid THEN Done(Err("CheckDigitIncorrect"))
         ELSE Done(Ok(zero_pad(fixed, 14))))

\* gtin14::fix(code), from the trimmed string on
gtin14_fix_trimmed(fixed, oc) ==
    IF ~is_ascii(fixed) THEN Done(Err("NonAsciiString"))
    ELSE IF len(fixed) > 14 THEN Done(Err("TooLong"))
    ELSE Then(gtin14_check(zero_pad(fixed, 14), oc), LAMBDA valid :
         IF ~valid THEN Done(Err("CheckDigitIncorrect"))
         ELSE Done(Ok(zero_pad(fixed, 14))))

\* gtin14::fix(code)
gtin14_fix(c, oc) == gtin14_fix_trimmed(trim(c), oc)

(* ---------------------------- src/lib.rs ------------------------------ *)

\* The loop of compute_upca_check_digit from index i on (i in 0..11), with
\* u8 accumulators.
RECURSIVE upca_loop(_, _, _, _, _)
upca_loop(upc, i, even, odd, oc) ==
    IF i >= 11 THEN Done([even |-> even, odd |-> odd])
    ELSE Then(index(upc, i), LAMBDA b :
         Then(sub_u8(b, 48, oc), LAMBDA curr :
         IF i % 2 = 0
         THEN Then(add_un(odd, curr, 256, oc), LAMBDA sum :
                   upca_loop(upc, i + 1, even, sum, oc))
         ELSE Then(add_un(even, curr, 256, oc), LAMBDA sum :
                   upca_loop(upc, i + 1, sum, odd, oc))))

\* compute_upca_check_digit(upc)
compute_upca_check_digit(upc, oc) ==
    Then(upca_loop(upc, 0, 0, 0, oc), LAMBDA acc :
    Then(mul_un(3, acc.odd, 256, oc), LAMBDA triple :
    Then(add_un(triple, acc.even, 256, oc), LAMBDA total :
    complement(total % 10, oc))))

\* zero_pad(upc, size) of lib.rs
upca_zero_pad(upc, size) ==
    IF len(upc) >= size THEN upc
    ELSE Rep(48, size - len(upc)) \o upc

\* The digit loop of check_upca: some byte of the first 12 is no ASCII digit.
upca_non_digit(bytes) ==
    \E i \in 0..11 : bytes[i + 1] < 48 \/ bytes[i + 1] > 48 + 9

\* check_upca(upc)
check_upca(upc, oc) ==
    IF is_ascii(upc) = FALSE THEN Done(FALSE)
    ELSE IF len(upc) # 12 THEN Done(FALSE)
    ELSE IF upca_non_digit(as_bytes(upc)) THEN Done(FALSE)
    ELSE Then(compute_upca_check_digit(as_bytes(upc), oc), LAMBDA check :
         Then(index(as_bytes(upc), 11), LAMBDA b :
         IF b < 48 \/ b > 48 + 9 THEN Done(FALSE)
         ELSE Then(sub_u8(b, 48, oc), LAMBDA d :
              IF check # d THEN Done(FALSE) ELSE Done(TRUE))))

\* fix_upca(upc), with the trimmed string
fix_upca_trimmed(upc, fixed, oc) ==
    IF is_ascii(upc) = FALSE THEN Done(Err("Cannot operate on non-ASCII data"))
    ELSE IF len(fixed) > 12
         THEN Done(Err("Cannot fix UPC-A. Length is longer than 12."))
    ELSE Then(check_upca(upca_zero_pad(fixed, 12), oc), LAMBDA valid :
         IF ~valid THEN Done(Err("Final validation failed"))
         ELSE Done(Ok(upca_zero_pad(fixed, 12))))

\* fix_upca(upc)
fix_upca(upc, oc) == fix_upca_trimmed(upc, trim_right(trim_left(upc)), oc)

(* ------------------- the build with feature "simd" -------------------- *)

\* A u8x16 is a sequence of 16 bytes; its lane arithmetic wraps.
Lanes == 1..16

\* utils::check_ascii_simd(vect)
check_ascii_simd(vect) == ~(\E l \in Lanes : vect[l] > 57 \/ vect[l] < 48)

\* MUL of compute_check_digit_simd
MUL == <<3, 1, 3, 1, 3, 1, 3, 1, 3, 1, 3, 1, 3, 1, 3, 1>>

\* vect *= MUL
lane_mul(vect, m) == [l \in Lanes |-> (vect[l] * m[l]) % 256]

\* vect - 48
lane_sub(vect, n) == [l \in Lanes |-> (vect[l] + 256 - n) % 256]

\* vect.wrapping_sum()
RECURSIVE wrapping_sum(_)
wrapping_sum(vect) ==
    IF vect = <<>> THEN 0
    ELSE (Head(vect) + wrapping_sum(Tail(vect))) % 256

\* Variant: the lane weights start with 1.
compute_check_digit_simd_from_one(vect, oc) ==
    complement(wrapping_sum(lane_mul(vect,
        <<1, 3, 1, 3, 1, 3, 1, 3, 1, 3, 1, 3, 1, 3, 1, 3>>)) % 10, oc)

\* utils::compute_check_digit_simd(vect)
compute_check_digit_simd(vect, oc) ==
    complement(wrapping_sum(lane_mul(vect, MUL)) % 10, oc)

\* The vector gtin12::check makes of the 12 bytes of its input.
gtin12_vect(bytes) == <<48, 48, 48, 48>> \o SubSeq(bytes, 1, 11) \o <<48>>

\* gtin12::check(code), simd
gtin12_check_simd(c, oc) ==
    IF len(c) # 12 THEN Done(FALSE)
    ELSE IF ~check_ascii_simd(gtin12_vect(as_bytes(c))) THEN Done(FALSE)
    ELSE Then(compute_check_digit_simd(
                  lane_sub(gtin12_vect(as_bytes(c)), 48), oc), LAMBDA check :
         Then(add_un(check, 48, 256, oc), LAMBDA d :
         Then(index(as_bytes(c), 11), LAMBDA b :
         Done(d = b))))

\* The vectors with which gtin12::check, simd, invokes
\* compute_check_digit_simd.
gtin12_check_simd_calls(c) ==
    IF len(c) # 12 THEN <<>>
    ELSE IF ~check_ascii_simd(gtin12_vect(as_bytes(c))) THEN <<>>
    ELSE <<lane_sub(gtin12_vect(as_bytes(c)), 48)>>

\* The vector gtin14::check makes of the 14 bytes of its input.
gtin14_vect(bytes) == <<48, 48>> \o SubSeq(bytes, 1, 13) \o <<48>>

\* gtin14::check(code), simd
gtin14_check_simd(c, oc) ==
    IF len(c) # 14 THEN Done(FALSE)
    ELSE IF ~check_ascii_simd(gtin14_vect(as_bytes(c))) THEN Done(FALSE)
    ELSE Then(compute_check_digit_simd(
                  lane_sub(gtin14_vect(as_bytes(c)), 48), oc), LAMBDA check :
         Then(add_un(check, 48, 256, oc), LAMBDA d :
         Then(index(as_bytes(c), 13), LAMBDA b :
         Done(d = b))))

\* The vectors with which gtin14::check, simd, invokes
\* compute_check_digit_simd.
gtin14_check_simd_calls(c) ==
    IF len(c) # 14 THEN <<>>
    ELSE IF ~check_ascii_simd(gtin14_vect(as_bytes(c))) THEN <<>>
    ELSE <<lane_sub(gtin14_vect(as_bytes(c)), 48)>>

(* ---------------- invocations of the checksum routine ---------------- *)

\* The arguments with which a call of a validator invokes the checksum
\* routine (utils::compute_check_digit, compute_upca_check_digit), in order:
\* the statements that precede the invocation decide whether it is reached.

\* Variant: the digit test before the invocation is missing.
gtin8_check_calls_unguarded(c) ==
    IF len(c) # 8 THEN <<>>
    ELSE <<as_bytes(c)>>

\* gtin8::check(code)
gtin8_check_calls(c) ==
    IF len(c) # 8 THEN <<>>
    ELSE IF ~is_ascii_numeric(c) THEN <<>>
    ELSE <<as_bytes(c)>>

\* gtin8::fix(code), from the trimmed string on
gtin8_fix_trimmed_calls(fixed) ==
    IF ~is_ascii(fixed) THEN <<>>
    ELSE IF len(fixed) > 8 THEN <<>>
    ELSE gtin8_check_calls(zero_pad(fixed, 8))

\* gtin8::fix(code)
gtin8_fix_calls(c) == gtin8_fix_trimmed_calls(trim(c))

\* gtin12::check(code)
gtin12_check_calls(c) ==
    IF len(c) # 12 THEN <<>>
    ELSE IF ~is_ascii_numeric(c) THEN <<>>
    ELSE <<as_bytes(c)>>

\* gtin12::fix(code), from the trimmed string on
gtin12_fix_trimmed_calls(fixed) ==
    IF ~is_ascii(fixed) THEN <<>>
    ELSE IF len(fixed) > 12 THEN <<>>
    ELSE gtin12_check_calls(zero_pad(fixed, 12))

\* gtin12::fix(code)
gtin12_fix_calls(c) == gtin12_fix_trimmed_calls(trim(c))

\* gtin13::check(code)
gtin13_check_calls(c) ==
    IF ~is_ascii(c) THEN <<>>
    ELSE IF len(c) # 13 THEN <<>>
    ELSE IF ~is_number(as_bytes(c), 13) THEN <<>>
    ELSE <<as_bytes(c)>>

\* gtin13::fix(code), from the trimmed string on
gtin13_fix_trimmed_calls(fixed) ==
    IF ~is_ascii(fixed) THEN <<>>
    ELSE IF len(fixed) > 13 THEN <<>>
    ELSE gtin13_check_calls(zero_pad(fixed, 13))

\* gtin13::fix(code)
gtin13_fix_calls(c) == gtin13_fix_trimmed_calls(trim_right(trim_left(c)))

\* gtin14::check(code)
gtin14_check_calls(c) ==
    IF len(c) # 14 THEN <<>>
    ELSE IF ~is_ascii_numeric(c) THEN <<>>
    ELSE <<as_bytes(c)>>

\* gtin14::fix(code), from the trimmed string on
gtin14_fix_trimmed_calls(fixed) ==
    IF ~is_ascii(fixed) THEN <<>>
    ELSE IF len(fixed) > 14 THEN <<>>
    ELSE gtin14_check_calls(zero_pad(fixed, 14))

\* gtin14::fix(code)
gtin14_fix_calls(c) == gtin14_fix_trimmed_calls(trim(c))

\* check_upca(upc)
check_upca_calls(upc) ==
    IF is_ascii(upc) = FALSE THEN <<>>
    ELSE IF len(upc) # 12 THEN <<>>
    ELSE IF upca_non_digit(as_bytes(upc)) THEN <<>>
    ELSE <<as_bytes(upc)>>

\* fix_upca(upc), with the trimmed string
fix_upca_trimmed_calls(upc, fixed) ==
    IF is_ascii(upc) = FALSE THEN <<>>
    ELSE IF len(fixed) > 12 THEN <<>>
    ELSE check_upca_calls(upca_zero_pad(fixed, 12))

\* fix_upca(upc)
fix_upca_calls(upc) == fix_upca_trimmed_calls(upc, trim_right(trim_left(upc)))

(* --------------------------- the callers ------------------------------ *)

\* Characters the inputs are drawn from: the ten digits, a space, a hyphen,
\* a letter, U+00A0 (non-ASCII whitespace, 2 bytes) and U+2764 (3 bytes).
Alphabet == (48..57) \cup {32, 45, 97, 160, 10084}

\* The character a run repeats.
Fills == {48, 49, 57, 32, 160}

\* At most one character.
Optional == {<<>>} \cup {<<c>> : c \in Alphabet}

\* An input: an optional character, a run, an optional character.
Inputs ==
    {lead \o Rep(f, n) \o tail :
        lead \in Optional, f \in Fills, n \in 0..MaxFill, tail \in Optional}

Init ==
    /\ code \in Inputs
    /\ op = "none"
    /\ arg = 0
    /\ ret = Done("none")
    /\ calls = <<>>

\* A call of function f with its result r and the invocations t of the
\* checksum routine it makes; the build's overflow checks are the caller's
\* choice.
Call(f, a, r, t) ==
    /\ op = "none"
    /\ op' = f
    /\ arg' = a
    /\ ret' = r
    /\ calls' = t
    /\ UNCHANGED code

Gtin8Check == \E oc \in BOOLEAN : 
    Call("check", 8, gtin8_check(code, oc), gtin8_check_calls(code))
Gtin8Fix == \E oc \in BOOLEAN : 
    Call("fix", 8, gtin8_fix(code, oc), gtin8_fix_calls(code))
Gtin12Check == \E oc \in BOOLEAN : 
    Call("check", 12, gtin12_check(code, oc), gtin12_check_calls(code))
Gtin12Fix == \E oc \in BOOLEAN : 
    Call("fix", 12, gtin12_fix(code, oc), gtin12_fix_calls(code))
Gtin13Check == \E oc \in BOOLEAN : 
    Call("check", 13, gtin13_check(code, oc), gtin13_check_calls(code))
Gtin13Fix == \E oc \in BOOLEAN : 
    Call("fix", 13, gtin13_fix(code, oc), gtin13_fix_calls(code))
Gtin14Check == \E oc \in BOOLEAN : 
    Call("check", 14, gtin14_check(code, oc), gtin14_check_calls(code))
Gtin14Fix == \E oc \in BOOLEAN : 
    Call("fix", 14, gtin14_fix(code, oc), gtin14_fix_calls(code))
Gtin12CheckSimd ==
    \E oc \in BOOLEAN :
        Call("check_simd", 12, gtin12_check_simd(code, oc),
             gtin12_check_simd_calls(code))
Gtin14CheckSimd ==
    \E oc \in BOOLEAN :
        Call("check_simd", 14, gtin14_check_simd(code, oc),
             gtin14_check_simd_calls(code))
CheckUpca == \E oc \in BOOLEAN : 
    Call("check_upca", 12, check_upca(code, oc), check_upca_calls(code))
FixUpca == \E oc \in BOOLEAN : 
    Call("fix_upca", 12, fix_upca(code, oc), fix_upca_calls(code))

ComputeCheckDigit ==
    \E oc \in BOOLEAN :
        Call("compute_check_digit", 0,
             compute_check_digit(as_bytes(code), oc), <<as_bytes(code)>>)

ZeroPad ==
    \E size \in 0..MaxSize :
        /\ Len(code) <= MaxRun
        /\ Call("zero_pad", size, Done(zero_pad(code, size)), <<>>)

IsAsciiNumeric ==
    Call("is_ascii_numeric", 0, Done(is_ascii_numeric(code)), <<>>)

Next ==
    \/ Gtin8Check \/ Gtin8Fix
    \/ Gtin12Check \/ Gtin12Fix
    \/ Gtin13Check \/ Gtin13Fix
    \/ Gtin14Check \/ Gtin14Fix
    \/ Gtin12CheckSimd \/ Gtin14CheckSimd
    \/ CheckUpca \/ FixUpca
    \/ ComputeCheckDigit
    \/ ZeroPad
    \/ IsAsciiNumeric

\* A caller of compute_check_digit on a long run of one byte, followed one
\* loop iteration at a time: code holds the byte and the length of the run,
\* arg the loop index i and the build's overflow checks, ret the accumulators
\* even and odd.
LongInputs == {[byte |-> 57, len |-> LongLen]}

\* The bytes of such an input.
run_bytes(c) == Rep(c.byte, c.len)

InitLong ==
    /\ code \in LongInputs
    /\ op = "compute_check_digit:loop"
    /\ arg \in {[i |-> 2, oc |-> b] : b \in BOOLEAN}
    /\ ret = Done([even |-> 0, odd |-> 0])
    /\ calls = <<code>>

LoopStep ==
    /\ op = "compute_check_digit:loop"
    /\ ~ret.panic
    /\ arg.i < code.len + 1
    /\ ret' = check_digit_step(run_bytes(code), arg.i, ret.val.even,
                               ret.val.odd, arg.oc)
    /\ arg' = [arg EXCEPT !.i = @ + 1]
    /\ UNCHANGED <<code, op, calls>>

LoopEnd ==
    /\ op = "compute_check_digit:loop"
    /\ ~ret.panic
    /\ arg.i >= code.len + 1
    /\ ret' = check_digit_end(ret.val, arg.oc)
    /\ op' = "compute_check_digit:return"
    /\ UNCHANGED <<code, arg, calls>>

NextLong == LoopStep \/ LoopEnd

SpecLong == InitLong /\ [][NextLong]_vars

Spec == Init /\ [][Next]_vars

(* ============================ properties ============================== *)

\* The vocabulary of the statements below, independent of the functions
\* above: a string is a sequence of characters, a digit is '0'..'9'.
AllAscii(s) == \A i \in 1..Len(s) : s[i] < 128
AllDigits(s) == \A i \in 1..Len(s) : s[i] \in 48..57
Zeros(n) == [i \in 1..n |-> 48]

\* The sum of the digits d weighted 3, 1, 3, ... from the right.
RECURSIVE GS1Sum(_)
GS1Sum(d) ==
    IF d = <<>> THEN 0
    ELSE 3 * (d[Len(d)] - 48)
         + (IF Len(d) >= 2 THEN d[Len(d) - 1] - 48 ELSE 0)
         + GS1Sum(SubSeq(d, 1, Len(d) - 2))

\* The GS1 check digit of the digits d that precede the check-digit position.
GS1CheckDigit(d) == (10 - (GS1Sum(d) % 10)) % 10

\* s is a valid code of n digits.
ValidCode(s, n) ==
    /\ AllAscii(s)
    /\ Len(s) = n
    /\ AllDigits(s)
    /\ GS1CheckDigit(SubSeq(s, 1, n - 1)) = s[n] - 48

\* s without its leading and trailing ASCII whitespace.
AsciiWhitespace == (9..13) \cup {32}
RECURSIVE AsciiTrim(_)
AsciiTrim(s) ==
    IF s = <<>> THEN s
    ELSE IF Head(s) \in AsciiWhitespace THEN AsciiTrim(Tail(s))
    ELSE IF s[Len(s)] \in AsciiWhitespace THEN AsciiTrim(SubSeq(s, 1, Len(s) - 1))
    ELSE s

\* The state is the return of a check / of a fix for the length arg.
IsCheck == op \in {"check", "check_upca"}
IsFix == op \in {"fix", "fix_upca"}

\* The error kinds of fix; fix_upca reports them as messages.
Kind(r) ==
    CASE r.kind = "Cannot operate on non-ASCII data" -> "NonAsciiString"
      [] r.kind = "Cannot fix UPC-A. Length is longer than 12." -> "TooLong"
      [] r.kind = "Final validation failed" -> "CheckDigitIncorrect"
      [] OTHER -> r.kind

\* check of the validator a state is about, on the string c.
check_of(f, n, c, oc) ==
    CASE f \in {"check_upca", "fix_upca"} -> check_upca(c, oc)
      [] n = 8 -> gtin8_check(c, oc)
      [] n = 12 -> gtin12_check(c, oc)
      [] n = 13 -> gtin13_check(c, oc)
      [] OTHER -> gtin14_check(c, oc)

\* C1: for each length L and every input, check returns true if and only if
\* the input is all ASCII, has length exactly L, is all decimal digits and
\* its last digit is the check digit of its first L-1 digits; otherwise it
\* returns false.
C1_CheckIffValid == IsCheck => ret = Done(ValidCode(code, arg))

\* C1 witness: a check that returned true on a code whose check digit is not 0.
C1_Witness ==
    /\ op = "check" /\ arg = 13
    /\ ret = Done(TRUE)
    /\ code[13] # 48

\* C2: check and fix are total: on every input (empty, short, long,
\* multi-byte, multi-byte of byte length exactly L) the call returns, check
\* with a boolean and fix with exactly one of Ok, NonAsciiString, TooLong,
\* CheckDigitIncorrect, and never panics.
C2_Total ==
    /\ IsCheck => ret.panic = FALSE /\ ret.val \in BOOLEAN
    /\ IsFix =>
        /\ ret.panic = FALSE
        /\ Kind(ret.val) \in {"Ok", "NonAsciiString", "TooLong", "CheckDigitIncorrect"}

\* C2 witness: check has returned on a multi-byte string of byte length L.
C2_Witness ==
    /\ op = "check" /\ arg = 8
    /\ ~AllAscii(code)
    /\ len(code) = 8
    /\ ret.panic = FALSE

\* C3: whenever fix returns Ok(r), r has length exactly L, consists only of
\* ASCII decimal digits, and check(r) is true.
C3_FixOkIsValid ==
    (IsFix /\ ret.val.kind = "Ok") =>
        /\ Len(ret.val.code) = arg
        /\ AllDigits(ret.val.code)
        /\ \A oc \in BOOLEAN : check_of(op, arg, ret.val.code, oc) = Done(TRUE)

\* C3 witness: a fix that returned Ok after padding a shorter input.
C3_Witness ==
    /\ op = "fix" /\ arg = 12
    /\ ret.val.kind = "Ok"
    /\ Len(code) < 12
    /\ ret.val.code[12] # 48

\* C4: if the input of fix, before trimming, contains any non-ASCII
\* character, also in the leading or trailing part that trimming removes,
\* fix returns NonAsciiString.
C4_NonAsciiRejected ==
    (IsFix /\ ~AllAscii(code)) => Kind(ret.val) = "NonAsciiString"

\* C5: for every all-ASCII input whose trimmed length exceeds L, fix returns
\* TooLong whatever its characters are; and fix never returns a string
\* shorter than the trimmed input (no truncation).
C5_TooLongNoTruncation ==
    IsFix =>
        /\ (AllAscii(code) /\ Len(AsciiTrim(code)) > arg)
              => Kind(ret.val) = "TooLong"
        /\ ret.val.kind = "Ok" => Len(ret.val.code) >= Len(trim(code))

\* C5 witness: TooLong for an input of L+1 digits whose leading L digits
\* form a valid code.
C5_Witness ==
    /\ op = "fix" /\ arg = 14
    /\ Len(code) = 15
    /\ ValidCode(SubSeq(code, 1, 14), 14)
    /\ Kind(ret.val) = "TooLong"

\* C6: for every all-ASCII input whose trimmed length is at most L, fix
\* returns CheckDigitIncorrect exactly when the zero-padded trimmed string is
\* not a valid code, and Ok otherwise; an input with an interior non-digit
\* is not repaired and yields CheckDigitIncorrect.
C6_CheckDigitIncorrect ==
    (IsFix /\ AllAscii(code) /\ Len(AsciiTrim(code)) <= arg) =>
        LET t == AsciiTrim(code)
            valid == ValidCode(Zeros(arg - Len(t)) \o t, arg)
        IN /\ Kind(ret.val) = (IF valid THEN "Ok" ELSE "CheckDigitIncorrect")
           /\ ~AllDigits(t) => Kind(ret.val) = "CheckDigitIncorrect"

\* C6 witness: CheckDigitIncorrect for digits with an interior space.
C6_Witness ==
    /\ op = "fix" /\ arg = 8
    /\ Len(code) = 8
    /\ code[1] \in 48..57 /\ code[8] \in 48..57
    /\ \E i \in 2..7 : code[i] = 32
    /\ Kind(ret.val) = "CheckDigitIncorrect"

\* C7: whenever fix returns Ok(r), r is exactly the trimmed input preceded
\* by L - len(trimmed) '0' characters; a trimmed input of length L is
\* returned unchanged.
C7_OkIsPaddedTrim ==
    (IsFix /\ ret.val.kind = "Ok") =>
        ret.val.code = Zeros(arg - Len(trim(code))) \o trim(code)

\* C7 witness: Ok for an input that was both trimmed and padded.
C7_Witness ==
    /\ op = "fix" /\ arg = 13
    /\ ret.val.kind = "Ok"
    /\ Len(code) \in 1..11
    /\ code[1] = 32
    /\ ret.val.code[13] # 48

\* C8: on a digit sequence of length n, compute_check_digit returns
\* (10 - (S mod 10)) mod 10, S being the sum of the first n-1 digits weighted
\* 3, 1, 3, ... from the right, weight 3 on the digit left of the check-digit
\* position; the final byte, whatever it is, does not influence the result.
C8_CheckDigitFormula ==
    (/\ op = "compute_check_digit"
     /\ AllAscii(code)
     /\ AllDigits(SubSeq(code, 1, Len(code) - 1)))
        => ret = Done(GS1CheckDigit(SubSeq(code, 1, Len(code) - 1)))

\* C8 witness: a check digit other than 0 computed before a final byte that
\* is no digit.
C8_Witness ==
    /\ op = "compute_check_digit"
    /\ Len(code) = 13
    /\ AllDigits(SubSeq(code, 1, 12))
    /\ code[13] = 97
    /\ ret.val \in 1..9

\* C9: for every L and every sequence of L-1 digits, exactly one of the ten
\* final digits makes check true, and it is the digit compute_check_digit
\* returns.
C9_ExactlyOneCheckDigit ==
    (IsCheck /\ Len(code) = arg /\ AllDigits(code)) =>
        /\ \A oc \in BOOLEAN :
             ret.val = (compute_check_digit(as_bytes(code), oc) = Done(code[arg] - 48))
        /\ Cardinality({d \in 48..57 :
               check_of(op, arg, SubSeq(code, 1, arg - 1) \o <<d>>, TRUE)
                   = Done(TRUE)}) = 1

\* C9 witness: a check that returned false on L digits, only the last wrong.
C9_Witness ==
    /\ op = "check" /\ arg = 14
    /\ AllDigits(code) /\ Len(code) = 14
    /\ code[1] # code[2]
    /\ ret = Done(FALSE)

\* C10: zero_pad(s, n) returns s unchanged when len(s) >= n, and otherwise
\* n - len(s) '0' characters followed by s; the result has length
\* max(len(s), n); zero_pad(zero_pad(s, n), n) = zero_pad(s, n).
C10_ZeroPad ==
    op = "zero_pad" =>
        /\ len(code) >= arg => ret.val = code
        /\ len(code) < arg => ret.val = Zeros(arg - len(code)) \o code
        /\ len(ret.val) = (IF len(code) >= arg THEN len(code) ELSE arg)
        /\ zero_pad(ret.val, arg) = ret.val

\* C10 witness: a multi-byte string padded by fewer zeros than its
\* character count suggests.
C10_Witness ==
    /\ op = "zero_pad"
    /\ ~AllAscii(code)
    /\ len(code) < arg
    /\ Len(ret.val) < arg

\* C11: is_ascii_numeric(s) is true if and only if every character of s is
\* one of '0'..'9': true for the empty string, false as soon as s holds a
\* non-digit ASCII character or a non-ASCII character.
C11_IsAsciiNumeric ==
    op = "is_ascii_numeric" =>
        /\ ret = Done(AllDigits(code))
        /\ code = <<>> => ret.val = TRUE
        /\ (\E i \in 1..Len(code) : code[i] \notin 48..57) => ret.val = FALSE

\* C11 witness: false for digits that end in a letter.
C11_Witness ==
    /\ op = "is_ascii_numeric"
    /\ Len(code) >= 3
    /\ AllDigits(SubSeq(code, 1, Len(code) - 1))
    /\ code[Len(code)] = 97
    /\ ret = Done(FALSE)

\* fix of the validator a state is about, on the string c.
fix_of(f, n, c, oc) ==
    CASE f = "fix_upca" -> fix_upca(c, oc)
      [] n = 8 -> gtin8_fix(c, oc)
      [] n = 12 -> gtin12_fix(c, oc)
      [] n = 13 -> gtin13_fix(c, oc)
      [] OTHER -> gtin14_fix(c, oc)

\* Some pairs of strings of ASCII whitespace (space, tab, line feed), to put
\* before and after an input.
Blanks == {<<<<32>>, <<>>>>, <<<<>>, <<9, 10>>>>, <<<<10, 32>>, <<9>>>>}

\* C12: fix is invariant under surrounding ASCII whitespace: fix(w1 + s + w2)
\* has the outcome of fix(s), the same Ok value or the same error kind, for
\* all strings w1, w2 of ASCII whitespace; interior whitespace is kept.
C12_WhitespaceInvariant ==
    IsFix =>
        \A w \in Blanks : fix_of(op, arg, w[1] \o code \o w[2], TRUE) = ret

\* C12 witness: an Ok whose input has a digit on both sides and a space
\* before or after, removed in the result.
C12_Witness ==
    /\ op = "fix" /\ arg = 14
    /\ ret.val.kind = "Ok"
    /\ Len(code) = 15
    /\ code[1] = 32
    /\ ret.val.code[14] # 48

\* C13: on a digit-only byte sequence of any length, compute_check_digit
\* completes without overflow of its 16-bit accumulators and without an
\* out-of-range index, and returns a value below 10.
C13_NoOverflow ==
    (op \in {"compute_check_digit:loop", "compute_check_digit:return"}
        /\ code.byte \in 48..57)
    => /\ ret.panic = FALSE
       /\ op = "compute_check_digit:return" => ret.val \in 0..9

\* C14: in every call of check or fix, for every length L, the checksum
\* routine is invoked at most once, and its argument is exactly L ASCII
\* decimal digits: the input itself for check, the trimmed and padded input
\* for fix; a call on anything else returns without invoking it.
C14_DigitsBeforeChecksum ==
    (IsCheck \/ IsFix) =>
        /\ Len(calls) <= 1
        /\ \A k \in 1..Len(calls) :
              /\ Len(calls[k]) = arg
              /\ AllDigits(calls[k])
        /\ (IsCheck /\ calls # <<>>) => calls = <<code>>
        /\ (IsCheck /\ calls = <<>>) => ~(Len(code) = arg /\ AllDigits(code))

C14_Witness ==
    /\ op = "fix"
    /\ arg = 13
    /\ Len(code) \in 1..12
    /\ Len(calls) = 1
    /\ ret = Done(Err("CheckDigitIncorrect"))

\* s with the characters at positions i and i + 1 exchanged.
Swap(s, i) == [s EXCEPT ![i] = s[i + 1], ![i + 1] = s[i]]

\* C15: for every L and every code s with check(s) true, replacing the digit
\* at any one position by a different digit gives a string for which check
\* is false.
C15_SingleDigitError ==
    (IsCheck /\ ret = Done(TRUE)) =>
        \A i \in 1..Len(code) : \A d \in (48..57) \ {code[i]} :
            check_of(op, arg, [code EXCEPT ![i] = d], TRUE) = Done(FALSE)

C15_Witness ==
    /\ op = "check"
    /\ arg = 8
    /\ ret = Done(TRUE)
    /\ Len(code) = 8
    /\ code[1] # 48
    /\ code[8] # 48

\* C16 as stated: for every L and every code s with check(s) true, swapping
\* two adjacent digits that differ from each other gives a string for which
\* check is false.
C16_AdjacentTransposition ==
    (IsCheck /\ ret = Done(TRUE)) =>
        \A i \in 1..(Len(code) - 1) :
            code[i] # code[i + 1] =>
                check_of(op, arg, Swap(code, i), TRUE) = Done(FALSE)

\* C16 amended: for every L and every code s with check(s) true, swapping
\* two adjacent digits that differ from each other, and not by 5, gives a
\* string for which check is false; swapping two adjacent digits that differ
\* by 5 gives a string for which check is true.
C16_TranspositionNotFive ==
    (IsCheck /\ ret = Done(TRUE)) =>
        \A i \in 1..(Len(code) - 1) :
            /\ (code[i] # code[i + 1]
                    /\ code[i] - code[i + 1] \notin {5, -5})
                => check_of(op, arg, Swap(code, i), TRUE) = Done(FALSE)
            /\ code[i] - code[i + 1] \in {5, -5}
                => check_of(op, arg, Swap(code, i), TRUE) = Done(TRUE)

C16_Witness ==
    /\ op = "check"
    /\ arg = 12
    /\ ret = Done(TRUE)
    /\ Len(code) = 12
    /\ code[1] - code[2] \notin {0, 5, -5}
    /\ code[11] - code[12] \in {5, -5}

\* C17: for every digit string s and every k >= 0, compute_check_digit of k
\* zeros followed by s equals compute_check_digit(s); gtin12::check(s),
\* gtin13::check("0" + s) and gtin14::check("00" + s) are equal for every
\* 12-character s; and fix for length L succeeds on a shorter digit string
\* exactly when that string's last digit is the check digit of the digits
\* before it.
C17_ZeroPaddingPreserves ==
    /\ (op = "compute_check_digit" /\ AllDigits(code)) =>
          \A k \in 0..MaxPad : \A oc \in BOOLEAN :
              compute_check_digit(Zeros(k) \o as_bytes(code), oc) = ret
    /\ (op = "check" /\ arg = 12 /\ Len(code) = 12) =>
          \A oc \in BOOLEAN :
              /\ gtin13_check(<<48>> \o code, oc) = ret
              /\ gtin14_check(<<48, 48>> \o code, oc) = ret
    /\ (IsFix /\ AllDigits(code) /\ Len(code) \in 1..(arg - 1)) =>
          (ret.val.kind = "Ok"
              <=> compute_check_digit(as_bytes(code), TRUE)
                      = Done(code[Len(code)] - 48))

C17_Witness ==
    /\ op = "fix"
    /\ arg = 14
    /\ AllDigits(code)
    /\ Len(code) = 9
    /\ code[1] # 48
    /\ ret.val.kind = "Ok"

\* Strings made only of ASCII whitespace.
Whites == {<<9>>, <<10, 13>>, <<32, 11, 12>>, <<32, 32, 32, 32, 32, 32, 32, 32, 32>>}

\* C18: for every L, fix of the empty string and fix of a string made only
\* of whitespace return Ok of L '0' characters.
C18_FixOfNothing ==
    IsFix =>
        /\ (\A i \in 1..Len(code) : code[i] \in AsciiWhitespace)
              => ret = Done(Ok(Zeros(arg)))
        /\ code = <<>> =>
              \A w \in Whites : fix_of(op, arg, w, TRUE) = ret

C18_Witness ==
    /\ op = "fix"
    /\ arg = 8
    /\ Len(code) >= 2
    /\ \A i \in 1..Len(code) : code[i] = 32
    /\ ret = Done(Ok(Zeros(8)))

\* The sum of the lanes of a vector, not wrapped.
RECURSIVE LaneSum(_)
LaneSum(vect) == IF vect = <<>> THEN 0 ELSE Head(vect) + LaneSum(Tail(vect))

\* The vector the simd check of length n makes of the bytes.
vect_of(n, bytes) == IF n = 12 THEN gtin12_vect(bytes) ELSE gtin14_vect(bytes)

\* C19: the simd variants of gtin12::check and gtin14::check return what the
\* scalar variants return for every input string; for an input of L bytes
\* the vector passes check_ascii_simd exactly when the first L-1 bytes are
\* ASCII digits; for such bytes compute_check_digit_simd returns what the
\* scalar compute_check_digit returns, it is handed digit values only and
\* the sum of its weighted lanes is below 256; and an input whose last byte
\* is no digit is rejected.
C19_SimdEqualsScalar ==
    op = "check_simd" =>
        /\ \A oc \in BOOLEAN : check_of("check", arg, code, oc) = ret
        /\ len(code) = arg =>
              /\ check_ascii_simd(vect_of(arg, as_bytes(code)))
                    <=> AllDigits(SubSeq(as_bytes(code), 1, arg - 1))
              /\ calls # <<>>
                    <=> AllDigits(SubSeq(as_bytes(code), 1, arg - 1))
              /\ as_bytes(code)[arg] \notin 48..57 => ret = Done(FALSE)
        /\ \A k \in 1..Len(calls) : \A oc \in BOOLEAN :
              /\ \A l \in Lanes : calls[k][l] \in 0..9
              /\ LaneSum([l \in Lanes |-> calls[k][l] * MUL[l]]) < 256
              /\ compute_check_digit_simd(calls[k], oc)
                    = compute_check_digit(as_bytes(code), oc)

C19_Witness ==
    /\ op = "check_simd"
    /\ arg = 14
    /\ Len(code) = 14
    /\ AllDigits(code)
    /\ code[1] = 57
    /\ code[2] = 57
    /\ ret = Done(TRUE)

====
